---------------------------- MODULE Spec2Model ----------------------------
(***************************************************************************)
(* Model of the GCP-Pulumi repository:                                     *)
(*   - src/modules/vpc.ts   the VPC class (constructor, createFirewallRules,*)
(*                          getVPCDetails)                                 *)
(*   - src/index.ts         the entry configuration (environment reads and *)
(*                          the one VPC constructor call)                  *)
(*   - src/.github/workflows/pulumi.deploy.yml   the CI job                *)
(*                                                                         *)
(* A resource handle is the position of the resource in the list of        *)
(* resources the program has constructed; resource.id and resource.name    *)
(* are output references [res, prop] to that resource, as the program      *)
(* never sees the resolved values.                                         *)
(***************************************************************************)
EXTENDS Naturals, Sequences, FiniteSets

VARIABLES
  env,        \* process.env of the run (index.ts); a function from the set variables to their values
  args,       \* the arguments of the VPC constructor call
  pc,         \* position of the program
  i,          \* index of subnetsConfig.forEach (1-based)
  registry,   \* the resources constructed so far, in construction order
  calls,      \* every resource constructor invocation so far, with its outcome
  vpc,        \* this.vpc (a handle, or NoHandle before line 34 has assigned it)
  subnets,    \* this.subnets
  details,    \* the values returned by the calls of getVPCDetails(), in call order
  runNo,      \* which run of the entry configuration this is
  prev,       \* what the previous run of the entry configuration constructed and exported
  ciEvent,    \* the event that triggers the workflow
  ciLog       \* the conclusion of every workflow step decided so far

vars == <<env, args, pc, i, registry, calls, vpc, subnets, details, runNo, prev, ciEvent, ciLog>>

vpcVars == <<args, pc, i, registry, calls, vpc, subnets, details>>

entryVars == <<env, runNo, prev>>

ciVars == <<ciEvent, ciLog>>

-----------------------------------------------------------------------------
(* Bounds of the model *)

\* longest subnetsConfig list explored
MaxSubnets == 2

\* most calls of getVPCDetails() on one VPC object explored
MaxCalls == 2

-----------------------------------------------------------------------------
(* JavaScript values *)

\* the value of a parameter no argument was passed for
Undefined == [tag |-> "undefined", items |-> <<>>]

\* a string[] value
Arr(s) == [tag |-> "array", items |-> s]

\* this.vpc before the constructor has assigned it
NoHandle == 0

\* resource.<prop>: an output of the resource with handle h
Output(h, prop) == [res |-> h, prop |-> prop]

\* sequences over S of length lo..hi
SeqsOf(S, lo, hi) == UNION {[1..n -> S] : n \in lo..hi}

-----------------------------------------------------------------------------
(* src/modules/vpc.ts *)

\* new gcp.compute.Network(name, {...}), lines 34-36
NetworkArgs(name) ==
  [type |-> "Network", name |-> name, autoCreateSubnetworks |-> FALSE]

\* variant of SubnetworkArgs: the subnet is not associated with the VPC created on line 34
SubnetworkArgs_NoNetwork(subnetConfig, region, vpcId) ==
  [type |-> "Subnetwork", name |-> subnetConfig.name,
   ipCidrRange |-> subnetConfig.cidrRange, region |-> region,
   network |-> Output(NoHandle, "id"), privateIpGoogleAccess |-> TRUE]

\* new gcp.compute.Subnetwork(subnetConfig.name, {...}), lines 40-45
SubnetworkArgs(subnetConfig, region, vpcId) ==
  [type |-> "Subnetwork", name |-> subnetConfig.name,
   ipCidrRange |-> subnetConfig.cidrRange, region |-> region,
   network |-> vpcId, privateIpGoogleAccess |-> TRUE]

\* new gcp.compute.Firewall("allow-internal", {...}), lines 65-78
InternalFirewallArgs(vpcId, sourceRanges, sshSourceRanges) ==
  [type |-> "Firewall", name |-> "allow-internal", network |-> vpcId,
   allows |-> << [protocol |-> "tcp", ports |-> <<"0-65535">>],
                 [protocol |-> "udp", ports |-> <<"0-65535">>],
                 [protocol |-> "icmp", ports |-> <<>>] >>,
   sourceRanges |-> sourceRanges, targetTags |-> <<"internal">>,
   direction |-> "INGRESS", logConfig |-> [metadata |-> "INCLUDE_ALL_METADATA"]]

\* variant of SshFirewallArgs: the rule takes the general sourceRanges
SshFirewallArgs_General(vpcId, sourceRanges, sshSourceRanges) ==
  [type |-> "Firewall", name |-> "allow-ssh", network |-> vpcId,
   allows |-> << [protocol |-> "tcp", ports |-> <<"22">>] >>,
   sourceRanges |-> sourceRanges, targetTags |-> <<>>,
   direction |-> "INGRESS", logConfig |-> [metadata |-> "INCLUDE_ALL_METADATA"]]

\* new gcp.compute.Firewall("allow-ssh", {...}), lines 81-89
SshFirewallArgs(vpcId, sourceRanges, sshSourceRanges) ==
  [type |-> "Firewall", name |-> "allow-ssh", network |-> vpcId,
   allows |-> << [protocol |-> "tcp", ports |-> <<"22">>] >>,
   sourceRanges |-> sshSourceRanges, targetTags |-> <<>>,
   direction |-> "INGRESS", logConfig |-> [metadata |-> "INCLUDE_ALL_METADATA"]]

\* variant of OnThrow: the failed constructor is invoked again
OnThrow_Retry(p) == p

\* where control goes when a resource constructor throws at position p: the
\* constructor (lines 26-52) and createFirewallRules (lines 60-92) hold no
\* try/catch, so the exception leaves the constructor
OnThrow(p) == "failed"

\* a resource constructor returns: the resource is constructed, its handle is
\* its position in the registry
Constructed(r) ==
  /\ registry' = Append(registry, r)
  /\ calls' = Append(calls, [type |-> r.type, name |-> r.name, ok |-> TRUE])

\* a resource constructor throws: nothing is constructed
Thrown(r) ==
  /\ registry' = registry
  /\ calls' = Append(calls, [type |-> r.type, name |-> r.name, ok |-> FALSE])
  /\ pc' = OnThrow(pc)

\* this.vpc = new gcp.compute.Network(name, {...}), lines 34-36
CreateNetwork ==
  /\ pc = "ctor"
  /\ LET r == NetworkArgs(args.name) IN
       \/ /\ Constructed(r)
          /\ vpc' = Len(registry) + 1
          /\ pc' = "subnets"
          /\ UNCHANGED <<i, subnets>>
       \/ /\ Thrown(r)
          /\ UNCHANGED <<i, vpc, subnets>>
  /\ UNCHANGED <<args, details>>
  /\ UNCHANGED entryVars /\ UNCHANGED ciVars

\* variant of CreateSubnet: the subnet is put at the front of this.subnets
CreateSubnet_Unshift ==
  /\ pc = "subnets"
  /\ i <= Len(args.subnetsConfig)
  /\ LET r == SubnetworkArgs(args.subnetsConfig[i], args.region, Output(vpc, "id")) IN
       \/ /\ Constructed(r)
          /\ subnets' = <<Len(registry) + 1>> \o subnets
          /\ i' = i + 1
          /\ pc' = pc
       \/ /\ Thrown(r)
          /\ UNCHANGED <<i, subnets>>
  /\ UNCHANGED <<args, vpc, details>>
  /\ UNCHANGED entryVars /\ UNCHANGED ciVars

\* one iteration of subnetsConfig.forEach, lines 39-48
CreateSubnet ==
  /\ pc = "subnets"
  /\ i <= Len(args.subnetsConfig)
  /\ LET r == SubnetworkArgs(args.subnetsConfig[i], args.region, Output(vpc, "id")) IN
       \/ /\ Constructed(r)
          /\ subnets' = Append(subnets, Len(registry) + 1)
          /\ i' = i + 1
          /\ pc' = pc
       \/ /\ Thrown(r)
          /\ UNCHANGED <<i, subnets>>
  /\ UNCHANGED <<args, vpc, details>>
  /\ UNCHANGED entryVars /\ UNCHANGED ciVars

\* forEach has returned; this.createFirewallRules(...) constructs "allow-internal", lines 51, 65-78
CreateFirewallInternal ==
  /\ pc = "subnets"
  /\ i > Len(args.subnetsConfig)
  /\ LET r == InternalFirewallArgs(Output(vpc, "id"), args.sourceRanges, args.sshSourceRanges) IN
       \/ /\ Constructed(r)
          /\ pc' = "fw_ssh"
       \/ Thrown(r)
  /\ UNCHANGED <<args, i, vpc, subnets, details>>
  /\ UNCHANGED entryVars /\ UNCHANGED ciVars

\* variant of CreateFirewallSsh: no rule is constructed for an empty or absent SSH range list
CreateFirewallSsh_SkipWhenNoRange ==
  /\ pc = "fw_ssh"
  /\ LET r == SshFirewallArgs(Output(vpc, "id"), args.sourceRanges, args.sshSourceRanges) IN
       \/ /\ args.sshSourceRanges.items # <<>>
          /\ Constructed(r)
          /\ pc' = "done"
       \/ /\ args.sshSourceRanges.items = <<>>
          /\ pc' = "done"
          /\ UNCHANGED <<registry, calls>>
       \/ Thrown(r)
  /\ UNCHANGED <<args, i, vpc, subnets, details>>
  /\ UNCHANGED entryVars /\ UNCHANGED ciVars

\* createFirewallRules constructs "allow-ssh" and returns, and so does the constructor, lines 81-92, 52
CreateFirewallSsh ==
  /\ pc = "fw_ssh"
  /\ LET r == SshFirewallArgs(Output(vpc, "id"), args.sourceRanges, args.sshSourceRanges) IN
       \/ /\ Constructed(r)
          /\ pc' = "done"
       \/ Thrown(r)
  /\ UNCHANGED <<args, i, vpc, subnets, details>>
  /\ UNCHANGED entryVars /\ UNCHANGED ciVars

\* the value getVPCDetails() returns, lines 100-109
VPCDetails(theVpc, theSubnets) ==
  [vpcName |-> Output(theVpc, "name"),
   vpcId |-> Output(theVpc, "id"),
   subnets |-> [j \in 1..Len(theSubnets) |->
                  [subnetName |-> Output(theSubnets[j], "name"),
                   subnetId |-> Output(theSubnets[j], "id")]]]

\* variant of GetVPCDetails: the call empties this.subnets
GetVPCDetails_Draining ==
  /\ pc = "done"
  /\ Len(details) < MaxCalls
  /\ details' = Append(details, VPCDetails(vpc, subnets))
  /\ subnets' = <<>>
  /\ UNCHANGED <<args, pc, i, registry, calls, vpc>>
  /\ UNCHANGED entryVars /\ UNCHANGED ciVars

\* a call of getVPCDetails() on the constructed object, lines 99-110
GetVPCDetails ==
  /\ pc = "done"
  /\ Len(details) < MaxCalls
  /\ details' = Append(details, VPCDetails(vpc, subnets))
  /\ UNCHANGED <<args, pc, i, registry, calls, vpc, subnets>>
  /\ UNCHANGED entryVars /\ UNCHANGED ciVars

-----------------------------------------------------------------------------
(* A caller of the VPC class: any arguments, then calls of getVPCDetails() *)

VpcNames == {"india-vpc"}

Regions == {"us-central1", "asia-south1"}

SubnetConfigs ==
  [cidrRange : {"10.0.0.0/16", "10.1.0.0/16"}, name : {"vpc-subnet-1", "vpc-subnet-2"}]

RangeLists ==
  {<<>>, <<"10.0.0.0/8">>, <<"203.0.113.5/32">>, <<"10.0.0.0/8", "203.0.113.5/32">>}

\* the constructor's parameters, lines 26-32; a caller that passes no fifth
\* argument leaves sshSourceRanges undefined
CtorArgs ==
  [name : VpcNames, region : Regions,
   subnetsConfig : SeqsOf(SubnetConfigs, 0, MaxSubnets),
   sourceRanges : {Arr(s) : s \in RangeLists},
   sshSourceRanges : {Arr(s) : s \in RangeLists} \cup {Undefined}]

NoArgs ==
  [name |-> "", region |-> "", subnetsConfig |-> <<>>,
   sourceRanges |-> Undefined, sshSourceRanges |-> Undefined]

NoEnv == [k \in {} |-> ""]

NoPrev == [registry |-> <<>>, details |-> <<>>]

NoEvent == [event_name |-> "", ref |-> <<>>, branch |-> <<>>]

\* the object state on entry to the constructor body: subnets = [] (line 17),
\* vpc not yet assigned (line 16)
FreshObject ==
  /\ i = 1
  /\ registry = <<>>
  /\ calls = <<>>
  /\ vpc = NoHandle
  /\ subnets = <<>>
  /\ details = <<>>

Init ==
  /\ args \in CtorArgs
  /\ pc = "ctor"
  /\ FreshObject
  /\ env = NoEnv /\ runNo = 0 /\ prev = NoPrev
  /\ ciEvent = NoEvent /\ ciLog = <<>>

Next ==
  \/ CreateNetwork
  \/ CreateSubnet
  \/ CreateFirewallInternal
  \/ CreateFirewallSsh
  \/ GetVPCDetails

Spec == Init /\ [][Next]_vars

-----------------------------------------------------------------------------
(* src/index.ts *)

\* the environment variables index.ts reads, and the one the workflow sets for
\* the SSH range (pulumi.deploy.yml line 18)
EnvValues ==
  [VPC_CIDR_RANGE_1 |-> {"", "192.168.1.0/24"},
   VPC_CIDR_RANGE_2 |-> {"", "192.168.2.0/24"},
   VPC_SOURCE_RANGE |-> {"", "192.168.0.0/16"},
   GCP_REGION |-> {"", "asia-south1"},
   VPC_SSH_SOURCE_RANGE |-> {"/32", "203.0.113.5/32"}]

EnvNames == DOMAIN EnvValues

\* every environment: each variable unset, or set to one of its values
Environments ==
  UNION {{e \in [D -> UNION {EnvValues[k] : k \in D}] : \A k \in D : e[k] \in EnvValues[k]}
         : D \in SUBSET EnvNames}

\* variant of OrDefault: process.env.K ?? d, which keeps an empty value
OrDefault_Nullish(e, k, d) == IF k \in DOMAIN e THEN e[k] ELSE d

\* process.env.K || d : d when K is unset or its value is falsy (the empty string)
OrDefault(e, k, d) == IF k \in DOMAIN e /\ e[k] # "" THEN e[k] ELSE d

\* subnetsConfigIndiaVPC, lines 5-8
SubnetsConfigIndiaVPC(e) ==
  << [cidrRange |-> OrDefault(e, "VPC_CIDR_RANGE_1", "10.0.0.0/16"), name |-> "vpc-subnet-1"],
     [cidrRange |-> OrDefault(e, "VPC_CIDR_RANGE_2", "10.1.0.0/16"), name |-> "vpc-subnet-2"] >>

\* sourceRangesIndiaVPC, line 11
SourceRangesIndiaVPC(e) == <<OrDefault(e, "VPC_SOURCE_RANGE", "10.0.0.0/8")>>

\* variant of IndiaVPCArgs: the SSH ranges come from VPC_SSH_SOURCE_RANGE
IndiaVPCArgs_SshFromEnv(e) ==
  [name |-> "india-vpc",
   region |-> OrDefault(e, "GCP_REGION", "us-central1"),
   subnetsConfig |-> SubnetsConfigIndiaVPC(e),
   sourceRanges |-> Arr(SourceRangesIndiaVPC(e)),
   sshSourceRanges |-> Arr(<<OrDefault(e, "VPC_SSH_SOURCE_RANGE", "10.0.0.0/8")>>)]

\* the arguments of new VPC(...), line 14: four arguments, so the fifth
\* parameter (sshSourceRanges) is undefined
IndiaVPCArgs(e) ==
  [name |-> "india-vpc",
   region |-> OrDefault(e, "GCP_REGION", "us-central1"),
   subnetsConfig |-> SubnetsConfigIndiaVPC(e),
   sourceRanges |-> Arr(SourceRangesIndiaVPC(e)),
   sshSourceRanges |-> Undefined]

\* lines 5-14 up to the constructor call
EntryConfig ==
  /\ pc = "entry"
  /\ args' = IndiaVPCArgs(env)
  /\ pc' = "ctor"
  /\ UNCHANGED <<i, registry, calls, vpc, subnets, details>>
  /\ UNCHANGED entryVars /\ UNCHANGED ciVars

\* export const indiaVpcDetails = indiaVPC.getVPCDetails(), line 17
ExportDetails ==
  /\ pc = "done"
  /\ details' = Append(details, VPCDetails(vpc, subnets))
  /\ pc' = "exported"
  /\ UNCHANGED <<args, i, registry, calls, vpc, subnets>>
  /\ UNCHANGED entryVars /\ UNCHANGED ciVars

\* the program is run again, in a new process, in an environment that differs
\* from the first run's only in VPC_SSH_SOURCE_RANGE
Rerun ==
  /\ pc = "exported"
  /\ runNo = 1
  /\ prev' = [registry |-> registry, details |-> details]
  /\ env' \in {e \in Environments :
                 /\ e # env
                 /\ \A k \in EnvNames \ {"VPC_SSH_SOURCE_RANGE"} :
                      /\ k \in DOMAIN e <=> k \in DOMAIN env
                      /\ k \in DOMAIN e => e[k] = env[k]}
  /\ runNo' = 2
  /\ pc' = "entry"
  /\ args' = NoArgs
  /\ i' = 1
  /\ registry' = <<>>
  /\ calls' = <<>>
  /\ vpc' = NoHandle
  /\ subnets' = <<>>
  /\ details' = <<>>
  /\ UNCHANGED ciVars

InitEntry ==
  /\ env \in Environments
  /\ runNo = 1
  /\ prev = NoPrev
  /\ args = NoArgs
  /\ pc = "entry"
  /\ FreshObject
  /\ ciEvent = NoEvent /\ ciLog = <<>>

NextEntry ==
  \/ EntryConfig
  \/ CreateNetwork
  \/ CreateSubnet
  \/ CreateFirewallInternal
  \/ CreateFirewallSsh
  \/ ExportDetails
  \/ Rerun

SpecEntry == InitEntry /\ [][NextEntry]_vars

-----------------------------------------------------------------------------
(* src/.github/workflows/pulumi.deploy.yml *)

\* branch names, as their "/"-separated segments
Branches == {<<"main">>, <<"feat", "x">>, <<"feat", "a", "b">>, <<"feature", "y">>, <<"dev">>}

\* github.ref of a push to branch b: refs/heads/<b>
PushRef(b) == <<"refs", "heads">> \o b

\* github.ref of a pull request's run: refs/pull/<n>/merge
PullRequestRef == <<"refs", "pull", "1", "merge">>

\* the events a repository can see: a push to a branch, a pull request against
\* a base branch
Events ==
  {[event_name |-> "push", ref |-> PushRef(b), branch |-> b] : b \in Branches}
  \cup {[event_name |-> "pull_request", ref |-> PullRequestRef, branch |-> b] : b \in Branches}

\* a branch filter pattern matches a branch: "*" matches any characters but "/"
GlobMatches(pattern, b) ==
  /\ Len(pattern) = Len(b)
  /\ \A j \in 1..Len(pattern) : pattern[j] = "*" \/ pattern[j] = b[j]

\* on:, lines 3-11
OnBranches ==
  [push |-> {<<"main">>, <<"feat", "*">>, <<"feature", "*">>},
   pull_request |-> {<<"main">>}]

Triggered(ev) ==
  /\ ev.event_name \in DOMAIN OnBranches
  /\ \E pattern \in OnBranches[ev.event_name] : GlobMatches(pattern, ev.branch)

\* jobs.deploy.steps, lines 27-65
Steps ==
  << "Checkout repo", "Set up Node.js", "Install NPM dependencies", "Install Pulumi CLI",
     "Authenticate to GCP", "Pulumi Login", "Pulumi Stack Init", "Set Pulumi Config",
     "Pulumi Preview", "Pulumi Deploy (only on push to main)" >>

\* success(): no earlier step of the job has failed
Success(log) == \A j \in 1..Len(log) : log[j] # "failure"

\* variant of StepCondition: the apply step does not test github.ref
StepCondition_AnyPush(name, ev, log) ==
  IF name = "Pulumi Deploy (only on push to main)"
  THEN Success(log) /\ ev.event_name = "push"
  ELSE Success(log)

\* the if: of a step; a step without one, and an if: that names no status
\* function, run only if success(). Line 64 is the only if:
StepCondition(name, ev, log) ==
  IF name = "Pulumi Deploy (only on push to main)"
  THEN Success(log) /\ ev.event_name = "push" /\ ev.ref = <<"refs", "heads", "main">>
  ELSE Success(log)

\* the next step of the job, if any is left
NextStep == Steps[Len(ciLog) + 1]

\* the next step runs and exits zero
StepSucceeds ==
  /\ Triggered(ciEvent)
  /\ Len(ciLog) < Len(Steps)
  /\ StepCondition(NextStep, ciEvent, ciLog)
  /\ ciLog' = Append(ciLog, "success")
  /\ UNCHANGED ciEvent /\ UNCHANGED vpcVars /\ UNCHANGED entryVars

\* the next step runs and fails
StepFails ==
  /\ Triggered(ciEvent)
  /\ Len(ciLog) < Len(Steps)
  /\ StepCondition(NextStep, ciEvent, ciLog)
  /\ ciLog' = Append(ciLog, "failure")
  /\ UNCHANGED ciEvent /\ UNCHANGED vpcVars /\ UNCHANGED entryVars

\* the next step's condition is false: it is skipped
StepSkipped ==
  /\ Triggered(ciEvent)
  /\ Len(ciLog) < Len(Steps)
  /\ ~StepCondition(NextStep, ciEvent, ciLog)
  /\ ciLog' = Append(ciLog, "skipped")
  /\ UNCHANGED ciEvent /\ UNCHANGED vpcVars /\ UNCHANGED entryVars

InitCI ==
  /\ ciEvent \in Events
  /\ ciLog = <<>>
  /\ env = NoEnv /\ runNo = 0 /\ prev = NoPrev
  /\ args = NoArgs
  /\ pc = "none"
  /\ FreshObject

NextCI ==
  \/ StepSucceeds
  \/ StepFails
  \/ StepSkipped

SpecCI == InitCI /\ [][NextCI]_vars

-----------------------------------------------------------------------------
(* Properties *)

\* the handles of the constructed resources of type t
OfType(t) == {h \in 1..Len(registry) : registry[h].type = t}

\* the handles of the constructed firewall rules named n
Rules(n) == {h \in OfType("Firewall") : registry[h].name = n}

\* the handle of the j-th Subnetwork constructed
NthSubnetwork(j) ==
  CHOOSE h \in OfType("Subnetwork") :
    Cardinality({k \in OfType("Subnetwork") : k <= h}) = j

\* the constructor call has returned
Completed == pc \in {"done", "exported"}

IsPrefix(s, t) == Len(s) <= Len(t) /\ \A k \in 1..Len(s) : s[k] = t[k]

\* C1: a completed construction from a list of N >= 1 subnet configurations has
\* constructed exactly 1 Network and N Subnetworks, this.vpc is that Network,
\* and the network field of every Subnetwork and every Firewall is the id of
\* that Network.
C1_OneNetworkNSubnets ==
  (Completed /\ Len(args.subnetsConfig) >= 1) =>
    /\ Cardinality(OfType("Network")) = 1
    /\ Cardinality(OfType("Subnetwork")) = Len(args.subnetsConfig)
    /\ vpc \in OfType("Network")
    /\ \A h \in OfType("Subnetwork") \cup OfType("Firewall") :
         \E n \in OfType("Network") : registry[h].network = Output(n, "id")

C1_Witness ==
  /\ pc = "done"
  /\ Len(args.subnetsConfig) = MaxSubnets
  /\ Cardinality(OfType("Subnetwork")) = MaxSubnets
  /\ Cardinality(OfType("Firewall")) = 2

\* C2: a completed construction has constructed exactly 2 Firewall rules, one
\* named "allow-internal" and one named "allow-ssh", whatever the arguments;
\* from an empty list it has constructed 1 Network, 0 Subnetworks and the 2
\* rules.
C2_ExactlyTwoRules ==
  Completed =>
    /\ Cardinality(OfType("Firewall")) = 2
    /\ Cardinality(Rules("allow-internal")) = 1
    /\ Cardinality(Rules("allow-ssh")) = 1
    /\ (args.subnetsConfig = <<>> =>
          /\ Cardinality(OfType("Network")) = 1
          /\ OfType("Subnetwork") = {})

C2_Witness ==
  /\ pc = "done"
  /\ args.subnetsConfig = <<>>
  /\ args.sourceRanges = Arr(<<>>)
  /\ args.sshSourceRanges = Arr(<<>>)
  /\ Len(registry) = 3

\* C3: the source ranges of every constructed "allow-ssh" rule are the
\* sshSourceRanges argument, those of every "allow-internal" rule are the
\* sourceRanges argument, and a completed construction holds both rules.
C3_SshRangesFromSshArgument ==
  /\ \A h \in Rules("allow-ssh") : registry[h].sourceRanges = args.sshSourceRanges
  /\ \A h \in Rules("allow-internal") : registry[h].sourceRanges = args.sourceRanges
  /\ Completed => (Rules("allow-ssh") # {} /\ Rules("allow-internal") # {})

C3_Witness ==
  /\ pc = "done"
  /\ args.sourceRanges = Arr(<<"10.0.0.0/8">>)
  /\ args.sshSourceRanges = Arr(<<"203.0.113.5/32">>)
  /\ \E h \in Rules("allow-ssh") : registry[h].sourceRanges = Arr(<<"203.0.113.5/32">>)

\* what VPC_SOURCE_RANGE resolves to: its value, or "10.0.0.0/8" when it is
\* unset or empty
GeneralRange ==
  IF "VPC_SOURCE_RANGE" \in DOMAIN env /\ env["VPC_SOURCE_RANGE"] # ""
  THEN env["VPC_SOURCE_RANGE"] ELSE "10.0.0.0/8"

\* C4: in the deployment index.ts builds, the constructor call gives the SSH
\* rule the same ranges as the internal rule: the source ranges of the
\* "allow-ssh" rule equal those of the "allow-internal" rule, namely
\* [VPC_SOURCE_RANGE or its default]. The call on line 14 passes no fifth
\* argument, so the "allow-ssh" rule is constructed with sourceRanges undefined.
C4_SshEqualsInternal ==
  Completed =>
    \A s \in Rules("allow-ssh") : \A n \in Rules("allow-internal") :
      /\ registry[s].sourceRanges = registry[n].sourceRanges
      /\ registry[s].sourceRanges = Arr(<<GeneralRange>>)

\* C5: every value getVPCDetails() returns holds one subnets entry per input
\* entry, the j-th being the name and id of the Subnetwork constructed from the
\* j-th input entry, and the name and id of the one Network.
C5_DetailsMatchInput ==
  \A c \in 1..Len(details) :
    LET d == details[c] IN
      /\ Len(d.subnets) = Len(args.subnetsConfig)
      /\ \A j \in 1..Len(d.subnets) :
           LET h == NthSubnetwork(j) IN
             /\ d.subnets[j] = [subnetName |-> Output(h, "name"), subnetId |-> Output(h, "id")]
             /\ registry[h].name = args.subnetsConfig[j].name
             /\ registry[h].ipCidrRange = args.subnetsConfig[j].cidrRange
      /\ \E n \in OfType("Network") :
           /\ OfType("Network") = {n}
           /\ d.vpcName = Output(n, "name")
           /\ d.vpcId = Output(n, "id")

C5_Witness ==
  /\ Len(details) >= 1
  /\ Len(args.subnetsConfig) = MaxSubnets
  /\ args.subnetsConfig[1] # args.subnetsConfig[2]
  /\ Len(details[1].subnets) = MaxSubnets

\* the parameters index.ts derives from the environment: the variable, its
\* default, the argument it becomes, and the field of the constructed
\* resources it ends up in
EntryParams ==
  {[var |-> "GCP_REGION", default |-> "us-central1"],
   [var |-> "VPC_CIDR_RANGE_1", default |-> "10.0.0.0/16"],
   [var |-> "VPC_CIDR_RANGE_2", default |-> "10.1.0.0/16"],
   [var |-> "VPC_SOURCE_RANGE", default |-> "10.0.0.0/8"]}

\* the value the constructor call was given for the parameter of variable v
PassedFor(v) ==
  CASE v = "GCP_REGION" -> args.region
    [] v = "VPC_CIDR_RANGE_1" -> args.subnetsConfig[1].cidrRange
    [] v = "VPC_CIDR_RANGE_2" -> args.subnetsConfig[2].cidrRange
    [] v = "VPC_SOURCE_RANGE" -> args.sourceRanges.items[1]

\* the constructed resources carry the values the call was given: both subnets
\* the region, vpc-subnet-1 and vpc-subnet-2 their CIDR ranges, "allow-internal"
\* the one source range
ResourcesCarryArgs ==
  /\ \A h \in OfType("Subnetwork") :
       /\ registry[h].region = args.region
       /\ registry[h].name = "vpc-subnet-1" =>
            registry[h].ipCidrRange = args.subnetsConfig[1].cidrRange
       /\ registry[h].name = "vpc-subnet-2" =>
            registry[h].ipCidrRange = args.subnetsConfig[2].cidrRange
  /\ \A h \in Rules("allow-internal") :
       registry[h].sourceRanges = Arr(<<args.sourceRanges.items[1]>>)
  /\ Completed =>
       /\ {registry[h].name : h \in OfType("Subnetwork")} = {"vpc-subnet-1", "vpc-subnet-2"}
       /\ Rules("allow-internal") # {}

\* C6 as stated: each parameter takes its default exactly when its variable is
\* unset, and the variable's value otherwise.
C6_DefaultIffUnset ==
  pc # "entry" =>
    /\ \A q \in EntryParams :
         PassedFor(q.var) = IF q.var \in DOMAIN env THEN env[q.var] ELSE q.default
    /\ ResourcesCarryArgs

\* C6 amended: each parameter takes its default exactly when its variable is
\* unset or set to the empty string, and the variable's value otherwise; the
\* four are resolved independently of each other.
C6_DefaultIffUnsetOrEmpty ==
  pc # "entry" =>
    /\ \A q \in EntryParams :
         PassedFor(q.var) =
           IF q.var \in DOMAIN env /\ env[q.var] # "" THEN env[q.var] ELSE q.default
    /\ ResourcesCarryArgs

C6_Witness ==
  /\ pc = "exported"
  /\ "GCP_REGION" \notin DOMAIN env
  /\ "VPC_CIDR_RANGE_1" \in DOMAIN env /\ env["VPC_CIDR_RANGE_1"] = ""
  /\ "VPC_CIDR_RANGE_2" \in DOMAIN env /\ env["VPC_CIDR_RANGE_2"] = "192.168.2.0/24"
  /\ "VPC_SOURCE_RANGE" \notin DOMAIN env
  /\ \E h \in OfType("Subnetwork") :
       registry[h].ipCidrRange = "10.0.0.0/16" /\ registry[h].region = "us-central1"
  /\ \E h \in OfType("Subnetwork") : registry[h].ipCidrRange = "192.168.2.0/24"

\* the position of the preview and of the apply step among the steps
PreviewStep == CHOOSE k \in 1..Len(Steps) : Steps[k] = "Pulumi Preview"

ApplyStep == CHOOSE k \in 1..Len(Steps) : Steps[k] = "Pulumi Deploy (only on push to main)"

\* step k has been run (it was not skipped)
Ran(k) == k <= Len(ciLog) /\ ciLog[k] \in {"success", "failure"}

\* C7: the apply step runs only on a push whose ref is the main branch and only
\* after the preview step of the same run succeeded; on a pull request or a
\* push to another branch the run ends with the apply step skipped; once a step
\* has failed no later step runs; an event the workflow is not triggered by
\* runs nothing.
C7_ApplyOnlyOnPushToMain ==
  /\ Ran(ApplyStep) =>
       /\ ciEvent.event_name = "push"
       /\ ciEvent.ref = PushRef(<<"main">>)
       /\ ciLog[PreviewStep] = "success"
  /\ (Len(ciLog) = Len(Steps)
        /\ (ciEvent.event_name = "pull_request" \/ ciEvent.branch # <<"main">>)) =>
       ciLog[ApplyStep] = "skipped"
  /\ \A j \in 1..Len(ciLog) : \A k \in 1..Len(ciLog) :
       (j < k /\ ciLog[j] = "failure") => ciLog[k] = "skipped"
  /\ \A k \in 1..Len(ciLog) :
       (k < ApplyStep /\ \A j \in 1..(k - 1) : ciLog[j] = "success") => Ran(k)
  /\ ~Triggered(ciEvent) => ciLog = <<>>

C7_Witness ==
  /\ Len(ciLog) = Len(Steps)
  /\ ciEvent.event_name = "push"
  /\ ciEvent.ref = PushRef(<<"main">>)
  /\ ciLog[PreviewStep] = "success"
  /\ Ran(ApplyStep)

\* C8: a second run of index.ts in an environment that differs from the first
\* run's only in VPC_SSH_SOURCE_RANGE constructs the same resources, field for
\* field, and exports the same details.
C8_SshVariableNotWired ==
  (runNo = 2 /\ pc = "exported") =>
    /\ registry = prev.registry
    /\ details = prev.details

C8_Witness ==
  /\ runNo = 2
  /\ pc = "exported"
  /\ "VPC_SSH_SOURCE_RANGE" \in DOMAIN env
  /\ env["VPC_SSH_SOURCE_RANGE"] = "203.0.113.5/32"
  /\ Len(prev.registry) = 5
  /\ Len(prev.details) = 1

\* the constructor invocations of a construction from arguments a, in order
Plan(a) ==
  <<[type |-> "Network", name |-> a.name]>>
  \o [j \in 1..Len(a.subnetsConfig) |-> [type |-> "Subnetwork", name |-> a.subnetsConfig[j].name]]
  \o <<[type |-> "Firewall", name |-> "allow-internal"],
       [type |-> "Firewall", name |-> "allow-ssh"]>>

\* the calls so far that returned
Returned == {k \in 1..Len(calls) : calls[k].ok}

C9_State ==
  /\ Len(calls) <= Len(Plan(args))
  /\ \A k \in 1..Len(calls) :
       /\ calls[k].type = Plan(args)[k].type
       /\ calls[k].name = Plan(args)[k].name
       /\ k < Len(calls) => calls[k].ok
  /\ (Len(calls) > 0 /\ ~calls[Len(calls)].ok) <=> pc = "failed"
  /\ Len(registry) = Cardinality(Returned)
  /\ \A k \in 1..Len(registry) :
       registry[k].type = calls[k].type /\ registry[k].name = calls[k].name
  /\ pc = "done" <=> (Len(registry) = Len(Plan(args)))

C9_Step ==
  /\ IsPrefix(registry, registry')
  /\ IsPrefix(calls, calls')
  /\ pc = "failed" => UNCHANGED <<registry, calls, vpc, subnets>>

\* C9: construction invokes the resource constructors in a fixed order (the
\* Network, the Subnetworks in input order, "allow-internal", "allow-ssh"); the
\* first that throws ends it in failure: the resources constructed before stay
\* as they are, none after it is constructed, and the failed one is not
\* invoked again.
C9_NoRollbackNoRetry == []C9_State /\ [][C9_Step]_vars

C9_Witness ==
  /\ pc = "failed"
  /\ Len(calls) = 3
  /\ Len(registry) = 2
  /\ registry[2].type = "Subnetwork"
  /\ Len(args.subnetsConfig) = MaxSubnets

C10_Step ==
  Len(details') > Len(details) => UNCHANGED <<registry, calls, vpc, subnets, args, pc>>

\* C10: a call of getVPCDetails() constructs no resource and leaves this.vpc
\* and this.subnets unchanged, and every call returns what the first returned.
C10_PureRead ==
  /\ [](\A c \in 1..Len(details) : details[c] = details[1])
  /\ [][C10_Step]_vars

C10_Witness ==
  /\ Len(details) = MaxCalls
  /\ Len(details[MaxCalls].subnets) = MaxSubnets
  /\ Len(subnets) = MaxSubnets

=============================================================================
